---- MODULE Spec2Model ----
(***************************************************************************)
(* Model of 02_data_validation_cleaning.ipynb: the notebook that loads the *)
(* raw table of circulation permits, reports its quality problems, cleans  *)
(* it in place (drop_duplicates, strip/capitalize, median and mode         *)
(* imputation, overwrite of negative durations) and writes it to a file.   *)
(*                                                                         *)
(* Representation.                                                         *)
(*  - A nullable cell is an option: <<>> is NaN, <<v>> holds v.            *)
(*  - A text is a sequence of one-character strings.                       *)
(*  - duracion_dias cells are kept in half-days (2*d for d days), so that  *)
(*    the mean of the two middle values of an even-sized column is exact.  *)
(*  - A row of the DataFrame carries idx, its pandas index label; the file *)
(*    rows do not (read_csv builds a RangeIndex, to_csv(index=False) drops *)
(*    it).                                                                 *)
(*  - `df[col].fillna(v, inplace=True)` is modelled as pandas 2.x runs it  *)
(*    (the notebook's kernel is Python 3.13.5): the cached column writes   *)
(*    through to df.                                                       *)
(***************************************************************************)
EXTENDS Integers, Sequences, FiniteSets, TLC

VARIABLES file, df, median_duracion, most_frequent_zona, report, out, stage, pc

vars == <<file, df, median_duracion, most_frequent_zona, report, out, stage, pc>>

(***************************************************************************)
(* Bounds of the input tables.                                             *)
(***************************************************************************)
\* rows of a table whose three validated columns all vary
MaxRows == 2
\* characters of a tipo_vehiculo text in the one-row tables
MaxStrLen == 3
\* rows of a table in which one column (duracion_dias or zona_circulacion) varies
MaxColRows == 5

None == <<>>
Some(v) == <<v>>
IsNull(c) == c = None
Val(c) == c[1]

(***************************************************************************)
(* Characters and Python's str methods.                                    *)
(***************************************************************************)
Alphabet == {" ", "s", "S", "u", "U", "4"}

IsSpace(c) == c = " "

Upper(c) == CASE c = "s" -> "S" [] c = "u" -> "U" [] OTHER -> c

Lower(c) == CASE c = "S" -> "s" [] c = "U" -> "u" [] OTHER -> c

RECURSIVE LStrip(_)
LStrip(s) == IF s # <<>> /\ IsSpace(Head(s)) THEN LStrip(Tail(s)) ELSE s

RECURSIVE RStrip(_)
RStrip(s) ==
    IF s # <<>> /\ IsSpace(s[Len(s)]) THEN RStrip(SubSeq(s, 1, Len(s) - 1)) ELSE s

\* a strip() that forgets the trailing whitespace
Strip_Left(s) == LStrip(s)

\* str.strip(): no leading and no trailing whitespace
Strip(s) == RStrip(LStrip(s))

\* a capitalize() that leaves the characters after the first as they are
Capitalize_First(s) == [i \in DOMAIN s |-> IF i = 1 THEN Upper(s[i]) ELSE s[i]]

\* str.capitalize(): first character upper case, all the others lower case
Capitalize(s) == [i \in DOMAIN s |-> IF i = 1 THEN Upper(s[i]) ELSE Lower(s[i])]

\* Series.str.<method> on one cell: NaN stays NaN
StrStripCapitalize(c) == IF IsNull(c) THEN None ELSE Some(Capitalize(Strip(Val(c))))

(***************************************************************************)
(* Tables.                                                                 *)
(***************************************************************************)
FileRow(t, d, z, i) ==
    [tipo_vehiculo |-> t, duracion_dias |-> d, zona_circulacion |-> z, id |-> i]

\* the columns of a DataFrame row, without its index label
Values(r) == FileRow(r.tipo_vehiculo, r.duracion_dias, r.zona_circulacion, r.id)

\* pd.read_csv: the rows of the file under a RangeIndex 0..n-1
ReadCsv(rows) ==
    [p \in DOMAIN rows |->
        [idx |-> p - 1,
         tipo_vehiculo |-> rows[p].tipo_vehiculo,
         duracion_dias |-> rows[p].duracion_dias,
         zona_circulacion |-> rows[p].zona_circulacion,
         id |-> rows[p].id]]

\* df.to_csv(index=False)
ToCsv(t) == [p \in DOMAIN t |-> Values(t[p])]

\* df.duplicated(): a row equal in every column to an earlier one (NaN equals NaN)
Duplicated(t, p) == \E q \in 1..(p - 1) : Values(t[q]) = Values(t[p])

DuplicatedSum(t) == Cardinality({p \in DOMAIN t : Duplicated(t, p)})

\* the rows of t at the positions in keep, in their order
Take(t, keep) ==
    [k \in 1..Cardinality(keep) |->
        t[CHOOSE p \in keep : Cardinality({q \in keep : q <= p}) = k]]

\* drop_duplicates(keep='last')
DropDuplicates_KeepLast(t) ==
    Take(t, {p \in DOMAIN t : ~\E q \in (p + 1)..Len(t) : Values(t[q]) = Values(t[p])})

\* df.drop_duplicates(inplace=True): keep='first', index labels kept
DropDuplicates(t) == Take(t, {p \in DOMAIN t : ~Duplicated(t, p)})

\* df.isnull().sum()
IsnullSum(t) ==
    [tipo_vehiculo |-> Cardinality({p \in DOMAIN t : IsNull(t[p].tipo_vehiculo)}),
     duracion_dias |-> Cardinality({p \in DOMAIN t : IsNull(t[p].duracion_dias)}),
     zona_circulacion |-> Cardinality({p \in DOMAIN t : IsNull(t[p].zona_circulacion)})]

\* len(df[df['duracion_dias'] < 0]); NaN < 0 is False
IsNegative(c) == ~IsNull(c) /\ Val(c) < 0

NegativeCount(t) == Cardinality({p \in DOMAIN t : IsNegative(t[p].duracion_dias)})

(***************************************************************************)
(* Series.median() and Series.mode().                                      *)
(***************************************************************************)
\* positions of the non-missing cells of a column (skipna=True, dropna=True)
NotNull(t, col) == {p \in DOMAIN t : ~IsNull(t[p][col])}

\* the k-th smallest of the non-missing duracion_dias values
Kth(t, k) ==
    LET ps == NotNull(t, "duracion_dias")
        v(p) == Val(t[p].duracion_dias)
        p0 == CHOOSE p \in ps :
                 /\ Cardinality({q \in ps : v(q) < v(p)}) < k
                 /\ k <= Cardinality({q \in ps : v(q) <= v(p)})
    IN  v(p0)

\* a median that leaves the negative values out
Median_SkipNegatives(t) ==
    LET u == [p \in DOMAIN t |->
                IF IsNegative(t[p].duracion_dias)
                THEN [t[p] EXCEPT !.duracion_dias = None] ELSE t[p]]
        n == Cardinality(NotNull(u, "duracion_dias"))
    IN  IF n = 0 THEN None
        ELSE IF n % 2 = 1 THEN Some(Kth(u, (n + 1) \div 2))
        ELSE Some((Kth(u, n \div 2) + Kth(u, n \div 2 + 1)) \div 2)

\* df['duracion_dias'].median(): NaN for a column without values, the middle
\* value, or the mean of the two middle values
Median(t) ==
    LET n == Cardinality(NotNull(t, "duracion_dias"))
    IN  IF n = 0 THEN None
        ELSE IF n % 2 = 1 THEN Some(Kth(t, (n + 1) \div 2))
        ELSE Some((Kth(t, n \div 2) + Kth(t, n \div 2 + 1)) \div 2)

Zonas == {"A", "B", "C"}

\* Python's order of the zone names
ZonaRank(z) == CASE z = "A" -> 1 [] z = "B" -> 2 [] OTHER -> 3

ZonaCount(t, z) ==
    Cardinality({p \in NotNull(t, "zona_circulacion") : Val(t[p].zona_circulacion) = z})

\* the values of df['zona_circulacion'].mode(): the most frequent non-missing ones
Modes(t) ==
    LET present == {Val(t[p].zona_circulacion) : p \in NotNull(t, "zona_circulacion")}
    IN  {z \in present : \A y \in present : ZonaCount(t, y) <= ZonaCount(t, z)}

\* the most frequent value that occurs first in the column
ModeFirst_Encountered(t) ==
    LET first(z) == CHOOSE p \in DOMAIN t :
                        /\ t[p].zona_circulacion = Some(z)
                        /\ \A q \in 1..(p - 1) : t[q].zona_circulacion # Some(z)
    IN  CHOOSE z \in Modes(t) : \A y \in Modes(t) : first(z) <= first(y)

\* .mode()[0]: mode() returns its values sorted, so [0] is the smallest of them
ModeFirst(t) == CHOOSE z \in Modes(t) : \A y \in Modes(t) : ZonaRank(z) <= ZonaRank(y)

\* Series.fillna(value, inplace=True) on a column; fillna(NaN) changes nothing
Fillna(t, col, value) ==
    [p \in DOMAIN t |->
        IF IsNull(t[p][col]) THEN [t[p] EXCEPT ![col] = value] ELSE t[p]]

\* an overwrite that takes 0 for an invalid duration too
SetNegative_NonPositive(t, value) ==
    [p \in DOMAIN t |->
        IF ~IsNull(t[p].duracion_dias) /\ Val(t[p].duracion_dias) <= 0
        THEN [t[p] EXCEPT !.duracion_dias = value] ELSE t[p]]

\* df.loc[df['duracion_dias'] < 0, 'duracion_dias'] = value
SetNegative(t, value) ==
    [p \in DOMAIN t |->
        IF IsNegative(t[p].duracion_dias)
        THEN [t[p] EXCEPT !.duracion_dias = value] ELSE t[p]]

(***************************************************************************)
(* Input files.                                                            *)
(***************************************************************************)
RECURSIVE SeqsUpTo(_, _)
\* the sequences over S of length 0..n
SeqsUpTo(S, n) ==
    IF n = 0 THEN {<<>>}
    ELSE LET shorter == SeqsUpTo(S, n - 1)
         IN  shorter \cup {Append(s, x) : s \in {r \in shorter : Len(r) = n - 1}, x \in S}

Texts == SeqsUpTo(Alphabet, MaxStrLen) \ {<<>>}

TipoSmall == {None, Some(<<"s">>), Some(<<"S">>), Some(<<" ", "s">>)}
DurSmall == {None, Some(-6), Some(0), Some(10)}
ZonaSmall == {None, Some("A")}
DurVals == {None, Some(-6), Some(10), Some(14), Some(18)}
ZonaVals == {None} \cup {Some(z) : z \in Zonas}

\* tables of permits that share their id: all three validated columns vary
MixedTables ==
    SeqsUpTo({FileRow(t, d, z, 0) : t \in TipoSmall, d \in DurSmall, z \in ZonaSmall},
             MaxRows)

\* one permit with any tipo_vehiculo text
TextTables == {<<FileRow(Some(s), Some(10), Some("A"), 1)>> : s \in Texts}

\* the id of the permit on line p of a file that lists every permit twice
PairId(p) == (p + 1) \div 2

\* files that list every permit twice, the two lines differing at most in
\* duracion_dias
DurTables ==
    {[p \in DOMAIN c |-> FileRow(Some(<<"S">>), c[p], Some("A"), PairId(p))] :
        c \in SeqsUpTo(DurVals, MaxColRows)}

\* files that list every permit twice, the two lines differing at most in
\* zona_circulacion
ZonaTables ==
    {[p \in DOMAIN c |-> FileRow(Some(<<"S">>), Some(10), c[p], PairId(p))] :
        c \in SeqsUpTo(ZonaVals, MaxColRows)}

InputTables == MixedTables \cup TextTables \cup DurTables \cup ZonaTables

NoReport == [missing |-> None, duplicated |-> None, negative |-> None]

Init ==
    /\ file \in {[exists |-> FALSE, rows |-> <<>>]}
                \cup {[exists |-> TRUE, rows |-> t] : t \in InputTables}
    /\ df = <<>>
    /\ median_duracion = None
    /\ most_frequent_zona = None
    /\ report = NoReport
    /\ out = None
    /\ stage = "Unloaded"
    /\ pc = "load"

Abort ==
    /\ pc' = "error"
    /\ UNCHANGED <<file, df, median_duracion, most_frequent_zona, report, out, stage>>

\* cell 1: df = pd.read_csv(...); FileNotFoundError when the file is absent
Load ==
    /\ pc = "load"
    /\ IF file.exists
       THEN /\ df' = ReadCsv(file.rows)
            /\ stage' = "Raw"
            /\ pc' = "inspect"
            /\ UNCHANGED <<file, median_duracion, most_frequent_zona, report, out>>
       ELSE Abort

\* cell 2: the three printed counts
Inspect ==
    /\ pc = "inspect"
    /\ report' = [missing |-> Some(IsnullSum(df)),
                  duplicated |-> Some(DuplicatedSum(df)),
                  negative |-> Some(NegativeCount(df))]
    /\ pc' = "dedup"
    /\ UNCHANGED <<file, df, median_duracion, most_frequent_zona, out, stage>>

\* cell 3, step 1
Deduplicate ==
    /\ pc = "dedup"
    /\ df' = DropDuplicates(df)
    /\ stage' = "Deduplicated"
    /\ pc' = "normalize"
    /\ UNCHANGED <<file, median_duracion, most_frequent_zona, report, out>>

\* a column read without any value is float64, and .str raises AttributeError on it
StrAccessorFails(t) == t # <<>> /\ \A p \in DOMAIN t : IsNull(t[p].tipo_vehiculo)

\* cell 3, step 2
NormalizeText ==
    /\ pc = "normalize"
    /\ IF StrAccessorFails(df)
       THEN Abort
       ELSE /\ df' = [p \in DOMAIN df |->
                        [df[p] EXCEPT !.tipo_vehiculo = StrStripCapitalize(@)]]
            /\ stage' = "TextNormalized"
            /\ pc' = "impute_duracion"
            /\ UNCHANGED <<file, median_duracion, most_frequent_zona, report, out>>

\* cell 3, step 3, duracion_dias
ImputeDuracion ==
    /\ pc = "impute_duracion"
    /\ median_duracion' = Median(df)
    /\ df' = Fillna(df, "duracion_dias", Median(df))
    /\ pc' = "impute_zona"
    /\ UNCHANGED <<file, most_frequent_zona, report, out, stage>>

\* an imputation that skips the fill when there is no mode, and carries on
ImputeZona_Continue ==
    /\ pc = "impute_zona"
    /\ most_frequent_zona' = IF Modes(df) = {} THEN None ELSE Some(ModeFirst(df))
    /\ df' = Fillna(df, "zona_circulacion", most_frequent_zona')
    /\ stage' = "Imputed"
    /\ pc' = "correct"
    /\ UNCHANGED <<file, median_duracion, report, out>>

\* cell 3, step 3, zona_circulacion; mode()[0] raises KeyError on an empty mode()
ImputeZona ==
    /\ pc = "impute_zona"
    /\ IF Modes(df) = {}
       THEN Abort
       ELSE /\ most_frequent_zona' = Some(ModeFirst(df))
            /\ df' = Fillna(df, "zona_circulacion", Some(ModeFirst(df)))
            /\ stage' = "Imputed"
            /\ pc' = "correct"
            /\ UNCHANGED <<file, median_duracion, report, out>>

\* cell 3, step 4
CorrectRange ==
    /\ pc = "correct"
    /\ df' = SetNegative(df, median_duracion)
    /\ stage' = "RangeCorrected"
    /\ pc' = "verify_persist"
    /\ UNCHANGED <<file, median_duracion, most_frequent_zona, report, out>>

\* cell 4: the report on the cleaned table, then makedirs and to_csv, which
\* raise OSError when the destination cannot be written
VerifyPersist ==
    /\ pc = "verify_persist"
    /\ report' = [report EXCEPT !.missing = Some(IsnullSum(df))]
    /\ \E writable \in BOOLEAN :
          IF writable
          THEN /\ out' = Some(ToCsv(df))
               /\ stage' = "Persisted"
               /\ pc' = "done"
          ELSE /\ pc' = "error"
               /\ UNCHANGED <<out, stage>>
    /\ UNCHANGED <<file, df, median_duracion, most_frequent_zona>>

Next ==
    \/ Load
    \/ Inspect
    \/ Deduplicate
    \/ NormalizeText
    \/ ImputeDuracion
    \/ ImputeZona
    \/ CorrectRange
    \/ VerifyPersist

Spec == Init /\ [][Next]_vars

(***************************************************************************)
(* What the properties below read.                                         *)
(***************************************************************************)
\* the row of the input file a DataFrame row was read from
Input(r) == file.rows[r.idx + 1]

\* the positions in the file of the rows that survive drop_duplicates
Survivors == {df[p].idx + 1 : p \in DOMAIN df}

Cleaned == stage \in {"RangeCorrected", "Persisted"}

\* the duracion_dias column of the file, in half-days
DurColumn == [p \in DOMAIN file.rows |-> file.rows[p].duracion_dias]

ZonaColumn == [p \in DOMAIN file.rows |-> file.rows[p].zona_circulacion]

FileDur(p) == Val(file.rows[p].duracion_dias)

FileZona(p) == Val(file.rows[p].zona_circulacion)

RECURSIVE MidValue(_)
\* the median of the file's durations at positions ps, found by discarding one
\* smallest and one largest value until at most two are left
MidValue(ps) ==
    IF ps = {} THEN None
    ELSE IF Cardinality(ps) = 1 THEN Some(FileDur(CHOOSE p \in ps : TRUE))
    ELSE LET lo == CHOOSE p \in ps : \A q \in ps : FileDur(p) <= FileDur(q)
             hi == CHOOSE p \in ps \ {lo} : \A q \in ps \ {lo} : FileDur(q) <= FileDur(p)
         IN  IF Cardinality(ps) = 2 THEN Some((FileDur(lo) + FileDur(hi)) \div 2)
             ELSE MidValue(ps \ {lo, hi})

\* how often zone z occurs among the surviving rows of the file
Occurrences(z) ==
    Cardinality({p \in Survivors : file.rows[p].zona_circulacion = Some(z)})

MostFrequent == {z \in Zonas : Occurrences(z) > 0 /\ \A y \in Zonas : Occurrences(y) <= Occurrences(z)}

\* the first surviving position of the file that holds zone z
FirstSeen(z) ==
    CHOOSE p \in Survivors :
        /\ file.rows[p].zona_circulacion = Some(z)
        /\ \A q \in Survivors : file.rows[q].zona_circulacion = Some(z) => p <= q

\* the n characters of s after its first i are s without its surrounding
\* whitespace
TrimAt(s, i, n) ==
    /\ i + n <= Len(s)
    /\ \A k \in 1..Len(s) : (k <= i \/ k > i + n) => IsSpace(s[k])
    /\ n > 0 => ~IsSpace(s[i + 1]) /\ ~IsSpace(s[i + n])

\* C1: at the end of the pipeline no row of the written table has a negative
\* duracion_dias.
C1_NoNegativeDurations ==
    pc = "done" => \A p \in DOMAIN Val(out) : ~IsNegative(Val(out)[p].duracion_dias)

\* C2: at the end of the pipeline no two rows of the written table are equal in
\* every column.
C2_NoDuplicateRows ==
    pc = "done" =>
        \A p, q \in DOMAIN Val(out) : p # q => Val(out)[p] # Val(out)[q]

\* C3 as claimed: every row whose duracion_dias was missing or negative holds the
\* median of the surviving non-missing durations with the negative ones left out.
C3_MedianWithoutNegatives ==
    Cleaned =>
        \A p \in DOMAIN df :
            (IsNull(Input(df[p]).duracion_dias) \/ IsNegative(Input(df[p]).duracion_dias))
            => df[p].duracion_dias =
                   MidValue({q \in Survivors : ~IsNull(file.rows[q].duracion_dias)
                                                /\ ~IsNegative(file.rows[q].duracion_dias)})

\* C3 as amended: every row whose duracion_dias was missing or negative holds the
\* median of all the surviving non-missing durations, the negative ones included;
\* for the durations [5, -3, null, 7, 9] that median is 6 (12 half-days).
C3_MedianOfNonMissing ==
    Cleaned =>
        \A p \in DOMAIN df :
            (IsNull(Input(df[p]).duracion_dias) \/ IsNegative(Input(df[p]).duracion_dias))
            => df[p].duracion_dias =
                   MidValue({q \in Survivors : ~IsNull(file.rows[q].duracion_dias)})

C3_Witness ==
    /\ pc = "done"
    /\ DurColumn = <<Some(10), Some(-6), None, Some(14), Some(18)>>
    /\ Len(df) = 5
    /\ df[2].duracion_dias = Some(12)
    /\ df[3].duracion_dias = Some(12)

\* C4: at the end of the pipeline every row of the written table has a
\* duracion_dias and a zona_circulacion.
C4_NoMissingValues ==
    pc = "done" =>
        \A p \in DOMAIN Val(out) :
            ~IsNull(Val(out)[p].duracion_dias) /\ ~IsNull(Val(out)[p].zona_circulacion)

\* C5 as claimed: every row whose zona_circulacion was missing holds the most
\* frequent surviving zone, and among equally frequent zones the one met first.
C5_ModeFirstEncountered ==
    stage \in {"Imputed", "RangeCorrected", "Persisted"} =>
        \A p \in DOMAIN df :
            IsNull(Input(df[p]).zona_circulacion) =>
                \E z \in MostFrequent :
                    /\ df[p].zona_circulacion = Some(z)
                    /\ \A y \in MostFrequent : FirstSeen(z) <= FirstSeen(y)

\* C5 as amended: every row whose zona_circulacion was missing holds the most
\* frequent surviving zone, and among equally frequent zones the smallest in
\* sort order.
C5_ModeSmallest ==
    stage \in {"Imputed", "RangeCorrected", "Persisted"} =>
        \A p \in DOMAIN df :
            IsNull(Input(df[p]).zona_circulacion) =>
                \E z \in MostFrequent :
                    /\ df[p].zona_circulacion = Some(z)
                    /\ \A y \in MostFrequent : ZonaRank(z) <= ZonaRank(y)

C5_Witness ==
    /\ pc = "done"
    /\ \/ /\ ZonaColumn = <<Some("A"), Some("B"), Some("A"), None, Some("A")>>
          /\ Len(df) = 5
          /\ df[4].zona_circulacion = Some("A")
       \/ /\ ZonaColumn = <<Some("B"), Some("A"), None>>
          /\ Len(df) = 3
          /\ df[3].zona_circulacion = Some("A")

\* C6: every non-missing tipo_vehiculo of the cleaned table is the input text
\* without its surrounding whitespace, its first character in upper case and
\* all its other characters in lower case.
C6_Capitalized ==
    stage \in {"TextNormalized", "Imputed", "RangeCorrected", "Persisted"} =>
        \A p \in DOMAIN df :
            ~IsNull(df[p].tipo_vehiculo) =>
                /\ ~IsNull(Input(df[p]).tipo_vehiculo)
                /\ LET s == Val(Input(df[p]).tipo_vehiculo)
                       c == Val(df[p].tipo_vehiculo)
                   IN  \E i \in 0..Len(s) :
                           /\ TrimAt(s, i, Len(c))
                           /\ \A k \in 1..Len(c) :
                                 c[k] = IF k = 1 THEN Upper(s[i + k]) ELSE Lower(s[i + k])

C6_Witness ==
    /\ pc = "done"
    /\ Len(df) = 1
    /\ Input(df[1]).tipo_vehiculo = Some(<<" ", "s", "U">>)
    /\ df[1].tipo_vehiculo = Some(<<"S", "u">>)

\* C7 as claimed: every tipo_vehiculo of the written table is the input text
\* without its surrounding whitespace and with its first character in upper
\* case, every later character as it was in the input.
C7_RestKeepsCase ==
    pc = "done" =>
        \A p \in DOMAIN df :
            ~IsNull(df[p].tipo_vehiculo) =>
                LET s == Val(Input(df[p]).tipo_vehiculo)
                    c == Val(df[p].tipo_vehiculo)
                IN  \E i \in 0..Len(s) :
                        /\ TrimAt(s, i, Len(c))
                        /\ \A k \in 1..Len(c) :
                              c[k] = IF k = 1 THEN Upper(s[i + k]) ELSE s[i + k]

\* C7 as amended: every tipo_vehiculo of the written table has no surrounding
\* whitespace, has the length of the input text without its surrounding
\* whitespace, starts with an upper-case character, and every later character is
\* the lower-case form of a character of the input, whatever its case was there.
C7_RestLowered ==
    pc = "done" =>
        \A p \in DOMAIN Val(out) :
            LET c == Val(out)[p].tipo_vehiculo
                s == Input(df[p]).tipo_vehiculo
            IN  ~IsNull(c) =>
                    /\ Val(c) # <<>> => ~IsSpace(Val(c)[1]) /\ ~IsSpace(Val(c)[Len(Val(c))])
                    /\ Val(c) # <<>> => Upper(Val(c)[1]) = Val(c)[1]
                    /\ \A k \in 2..Len(Val(c)) :
                          /\ Lower(Val(c)[k]) = Val(c)[k]
                          /\ \E j \in DOMAIN Val(s) : Upper(Val(s)[j]) = Upper(Val(c)[k])
                    /\ Len(Val(c)) =
                          Cardinality({k \in DOMAIN Val(s) :
                                          /\ \E j \in 1..k : ~IsSpace(Val(s)[j])
                                          /\ \E j \in k..Len(Val(s)) : ~IsSpace(Val(s)[j])})

C7_Witness ==
    /\ pc = "done"
    /\ Len(df) = 1
    /\ Input(df[1]).tipo_vehiculo = Some(<<"s", "U", " ">>)
    /\ Val(out)[1].tipo_vehiculo = Some(<<"S", "u">>)

\* a row of the file that equals an earlier row of the file in every column
RepeatsEarlier(p) == \E q \in 1..(p - 1) : file.rows[q] = file.rows[p]

\* C8: the written table has as many rows as the file minus the rows the Inspect
\* cell counted as duplicated; its rows are the rows of the file that repeat no
\* earlier row, in the order of the file; and after drop_duplicates no step
\* changes the number of rows.
C8_RowCount ==
    /\ [](pc = "done" =>
            /\ Len(Val(out)) = Len(file.rows) - Val(report.duplicated)
            /\ Len(Val(out)) = Len(df)
            /\ Survivors = {p \in DOMAIN file.rows : ~RepeatsEarlier(p)}
            /\ \A p, q \in DOMAIN df : p < q => df[p].idx < df[q].idx
            /\ \A p \in DOMAIN df : Val(out)[p].id = Input(df[p]).id)
    /\ [][stage \notin {"Unloaded", "Raw"} => Len(df') = Len(df)]_vars

C8_Witness ==
    /\ pc = "done"
    /\ Len(file.rows) = 5
    /\ Len(Val(out)) = 3
    /\ report.duplicated = Some(2)
    /\ df[2].idx = 2
    /\ df[3].idx = 4

Order ==
    {<<"Unloaded", "Raw">>, <<"Raw", "Deduplicated">>,
     <<"Deduplicated", "TextNormalized">>, <<"TextNormalized", "Imputed">>,
     <<"Imputed", "RangeCorrected">>, <<"RangeCorrected", "Persisted">>}

\* a step that is about to fail: the file is absent, no tipo_vehiculo is a text,
\* or no zona_circulacion has a value
StepFails ==
    \/ pc = "load" /\ ~file.exists
    \/ pc = "normalize" /\ df # <<>>
          /\ \A p \in DOMAIN df : IsNull(Input(df[p]).tipo_vehiculo)
    \/ pc = "impute_zona" /\ \A p \in DOMAIN df : IsNull(Input(df[p]).zona_circulacion)

\* C9: the stage only ever moves one place forward along Raw, Deduplicated,
\* TextNormalized, Imputed, RangeCorrected, Persisted; a step that fails leaves
\* the run in the error state with the stage and the output as they were; nothing
\* runs after an error; and the output file is written only by the step from
\* RangeCorrected to Persisted.
C9_StageOrder ==
    /\ [][/\ stage' # stage => <<stage, stage'>> \in Order
          /\ StepFails => pc' = "error" /\ stage' = stage /\ out' = out
          /\ pc # "error"
          /\ out' # out => stage = "RangeCorrected" /\ stage' = "Persisted"
          /\ stage' = "Persisted" /\ stage # "Persisted" => out' # None]_vars
    /\ [](pc = "error" => out = None /\ stage # "Persisted")
    /\ []((out # None) = (stage = "Persisted"))

C9_Witness ==
    /\ pc = "error"
    /\ stage = "TextNormalized"
    /\ Len(df) = 2
    /\ median_duracion # None
    /\ out = None

\* C10: in every surviving row a duracion_dias that was present and not negative
\* in the file, a zona_circulacion that was present in the file and the id are
\* what they were in the file; and the Inspect step changes neither the table
\* nor anything but the report.
C10_Frame ==
    /\ [](\A p \in DOMAIN df :
            /\ df[p].id = Input(df[p]).id
            /\ ~IsNull(Input(df[p]).duracion_dias) /\ ~IsNegative(Input(df[p]).duracion_dias)
                  => df[p].duracion_dias = Input(df[p]).duracion_dias
            /\ ~IsNull(Input(df[p]).zona_circulacion)
                  => df[p].zona_circulacion = Input(df[p]).zona_circulacion)
    /\ [][pc = "inspect" =>
            UNCHANGED <<file, df, median_duracion, most_frequent_zona, out, stage>>]_vars

C10_Witness ==
    /\ pc = "done"
    /\ Len(df) = 2
    /\ DurColumn = <<Some(10), Some(-6)>>
    /\ ZonaColumn = <<Some("A"), None>>
    /\ df[1].duracion_dias = Some(10)
    /\ df[2].duracion_dias = Some(2)
    /\ df[1].zona_circulacion = Some("A")
    /\ \A p \in DOMAIN df : df[p].id = 0

====
